---- MODULE Spec2Model ----
(***************************************************************************)
(* A model of the repository proxy: the Cache (cache.go) and the           *)
(* /repositories handler RepositoryHandlers.List with its workers          *)
(* RepositoryHandlers.query (the version of main.go that has the Cache,    *)
(* the timeout and the semaphore).                                         *)
(***************************************************************************)
EXTENDS Integers, Sequences, FiniteSets, TLC

(***************************************************************************)
(* Bounds of the model.                                                    *)
(***************************************************************************)
\* largest count a request asks for (the smallest is -1)
MaxCount == 2
\* repository IDs the upstream hands out are 1..MaxID
MaxID == 2
\* workers one request may start in all, replacements included
MaxWorkers == 3
\* capacity of the semaphore sem. The source makes it with capacity 10; the
\* model takes the capacity as a bound so that a count larger than the
\* capacity is within reach.
SemCap == 1
\* number of Cache.Add calls of earlier requests before the modelled ones
MaxPre == 1
\* largest count of a request in the specification with two requests
MaxConcCount == 1

Reqs == {1, 2}
IDs == 1..MaxID
\* the fields of a Repository besides its ID (Name, FetchedAt), as one value
Vers == {1, 2}
Workers == 0..(MaxWorkers - 1)

\* every Repository with an ID
Records == [ID : IDs, ver : Vers]
\* what the upstream returns while the modelled requests run, and what it
\* returned to the requests before them (an earlier FetchedAt)
Fetched == [ID : IDs, ver : {1}]
FetchedEarlier == [ID : IDs, ver : {2}]
\* Repository{}, the zero value
NoRepo == [ID |-> 0, ver |-> 0]

VARIABLES
    count,      \* count[r]: the parsed count parameter of request r
    unique,     \* unique[r]: the query parameter unique is "true"
    pc,         \* pc[r]: where List is for request r
    seen,       \* seen[r]: the map seen; isNil when unique was not asked for
    repos,      \* repos[r]: the result slice
    ch,         \* ch[r]: the buffered results channel, capacity count[r]
    sem,        \* sem[r]: number of values in the semaphore channel
    gid,        \* gid[r]: number the next worker gets
    wpc,        \* wpc[r][i]: where worker i of request r is in query
    wrepo,      \* wrepo[r][i]: what queryCall returned to worker i
    deadline,   \* deadline[r]: the timer of context.WithTimeout has fired
    callerDone, \* callerDone[r]: r.Context() is done, the caller went away
    cancelled,  \* cancelled[r]: the deferred cancel() has run
    cache,      \* the shared Cache: data (map) and ids (slice)
    response,   \* response[r]: what List wrote, once it has
    loopExit,   \* loopExit[r]: how the collection loop ended (history)
    lastCall,   \* the last direct call of a Cache method and its result
    lock,       \* c.lock: who holds it for writing, who for reading
    caller,     \* caller[t]: where client t is inside a Cache method
    firstLocked \* firstLocked[id]: record of the first Add of id that took
                \* the lock (history)

vars == <<count, unique, pc, seen, repos, ch, sem, gid, wpc, wrepo,
          deadline, callerDone, cancelled, cache, response, loopExit, lastCall,
          lock, caller, firstLocked>>

(***************************************************************************)
(* The Cache.                                                              *)
(***************************************************************************)
NewCache == [data |-> [i \in {} |-> NoRepo], ids |-> << >>]

\* Add as it would be without the return on a stored ID in front of the
\* append
CacheAdd_AppendAlways(c, r) ==
    [data |-> [i \in (DOMAIN c.data) \cup {r.ID} |->
                  IF i \in DOMAIN c.data THEN c.data[i] ELSE r],
     ids  |-> Append(c.ids, r.ID)]

\* Add as it would be if it replaced a record that is already there
CacheAdd_Replace(c, r) ==
    [data |-> [i \in (DOMAIN c.data) \cup {r.ID} |->
                  IF i = r.ID THEN r ELSE c.data[i]],
     ids  |-> IF r.ID \in DOMAIN c.data THEN c.ids ELSE Append(c.ids, r.ID)]

CacheAdd(c, r) ==
    IF r.ID \in DOMAIN c.data
    THEN c
    ELSE [data |-> [i \in (DOMAIN c.data) \cup {r.ID} |->
                        IF i = r.ID THEN r ELSE c.data[i]],
          ids  |-> Append(c.ids, r.ID)]

\* the exclude argument of GetRandom: nil, or a map whose keys are ids
NilMap == [isNil |-> TRUE, ids |-> {}]
MakeMap(s) == [isNil |-> FALSE, ids |-> s]

\* available as it would be if the exclusion were ignored
Available_NoExclude(c, exclude) == c.ids

Available(c, exclude) ==
    IF exclude.isNil
    THEN c.ids
    ELSE SelectSeq(c.ids, LAMBDA id : id \notin exclude.ids)

\* the marking done without the test seen != nil
MarkSeen_Always(m, id) == MakeMap(m.ids \cup {id})

\* the marking left out
MarkSeen_Forget(m, id) == m

\* seen[repo.ID] = true, under the test seen != nil
MarkSeen(m, id) == IF m.isNil THEN m ELSE MakeMap(m.ids \cup {id})

ErrNoRepositories == [err |-> TRUE, repo |-> NoRepo]

\* GetRandom as it would be if it gave up at len(available) <= 1
GetRandom_OffByOne(c, exclude) ==
    LET available == Available(c, exclude)
    IN  IF Len(available) <= 1
        THEN {ErrNoRepositories}
        ELSE {[err |-> FALSE, repo |-> c.data[available[i]]] :
                  i \in 1..Len(available)}

\* every (Repository, error) pair GetRandom can return: rand.Intn picks any
\* index of available
GetRandom(c, exclude) ==
    LET available == Available(c, exclude)
    IN  IF Len(available) = 0
        THEN {ErrNoRepositories}
        ELSE {[err |-> FALSE, repo |-> c.data[available[i]]] :
                  i \in 1..Len(available)}

RECURSIVE AddAll(_, _)
AddAll(c, s) == IF s = << >> THEN c ELSE AddAll(CacheAdd(c, Head(s)), Tail(s))

\* the Cache as earlier requests can have left it
PreSeqs == UNION {[1..n -> FetchedEarlier] : n \in 0..MaxPre}
InitCaches == {AddAll(NewCache, s) : s \in PreSeqs}

(***************************************************************************)
(* Initial states.                                                         *)
(***************************************************************************)
NoExit == [why |-> "none", obtained |-> 0, avail |-> 0]
NoCall == [op |-> "none", rec |-> NoRepo, exclude |-> NilMap,
           res |-> ErrNoRepositories]

\* the goroutines that call the Cache: one per request
Clients == Reqs

\* &sync.RWMutex{}
Unlocked == [writers |-> {}, readers |-> {}]

\* a client outside the Cache's methods
Outside == [pc |-> "idle", r |-> NoRepo, exclude |-> NilMap,
            available |-> << >>, id |-> 0, res |-> ErrNoRepositories]

InitReq(active, counts) ==
    /\ count \in [Reqs -> counts]
    /\ \A r \in Reqs \ active : count[r] = 0
    /\ unique \in [Reqs -> BOOLEAN]
    /\ \A r \in Reqs \ active : unique[r] = FALSE
    /\ pc = [r \in Reqs |-> IF r \in active THEN "start" ELSE "off"]
    /\ seen = [r \in Reqs |-> NilMap]
    /\ repos = [r \in Reqs |-> << >>]
    /\ ch = [r \in Reqs |-> << >>]
    /\ sem = [r \in Reqs |-> 0]
    /\ gid = [r \in Reqs |-> 0]
    /\ wpc = [r \in Reqs |-> [i \in Workers |-> "none"]]
    /\ wrepo = [r \in Reqs |-> [i \in Workers |-> NoRepo]]
    /\ deadline = [r \in Reqs |-> FALSE]
    /\ callerDone = [r \in Reqs |-> FALSE]
    /\ cancelled = [r \in Reqs |-> FALSE]
    /\ response = [r \in Reqs |-> [written |-> FALSE, repositories |-> << >>]]
    /\ lock = Unlocked
    /\ caller = [t \in Clients |-> Outside]
    /\ firstLocked = [id \in IDs |-> NoRepo]
    /\ loopExit = [r \in Reqs |-> NoExit]
    /\ lastCall = NoCall

\* one request, any count from -1 to MaxCount, over a Cache with a history
Init ==
    /\ InitReq({1}, (-1)..MaxCount)
    /\ cache \in InitCaches

(***************************************************************************)
(* Contexts.                                                               *)
(***************************************************************************)
\* a context made without the timeout
CtxDone_NoDeadline(r) == callerDone[r] \/ cancelled[r]

\* ctx.Done() of the context List makes with context.WithTimeout
CtxDone(r) == deadline[r] \/ callerDone[r] \/ cancelled[r]

(***************************************************************************)
(* RepositoryHandlers.List.                                                *)
(***************************************************************************)
\* from the parsing of the parameters to the start of the first workers
ListStart(r) ==
    /\ pc[r] = "start"
    /\ IF count[r] < 0
       THEN \* make([]Repository, 0, count) panics on a negative capacity
            /\ pc' = [pc EXCEPT ![r] = "panic"]
            /\ UNCHANGED <<seen, gid, wpc>>
       ELSE /\ pc' = [pc EXCEPT ![r] = "loop"]
            /\ seen' = [seen EXCEPT ![r] =
                            IF unique[r] THEN MakeMap({}) ELSE NilMap]
            /\ gid' = [gid EXCEPT ![r] = count[r]]
            /\ wpc' = [wpc EXCEPT ![r] =
                            [i \in Workers |->
                                IF i < count[r] THEN "select" ELSE "none"]]
    /\ UNCHANGED <<count, unique, repos, ch, sem, wrepo, deadline, callerDone,
                   cancelled, cache, response, loopExit, lastCall,
                   lock, caller, firstLocked>>

UnseenCached(r) == Len(Available(cache, seen[r]))

\* case <-ctx.Done(): break loop
ListCtxDone(r) ==
    /\ pc[r] = "loop"
    /\ CtxDone(r)
    /\ pc' = [pc EXCEPT ![r] = "backfill"]
    /\ loopExit' = [loopExit EXCEPT ![r] =
                        [why |-> "ctx", obtained |-> Len(repos[r]),
                         avail |-> UnseenCached(r)]]
    /\ UNCHANGED <<count, unique, seen, repos, ch, sem, gid, wpc, wrepo,
                   deadline, callerDone, cancelled, cache, response, lastCall,
                   lock, caller, firstLocked>>

\* the duplicate dropped and no worker started for it
ListRecvDup_NoReplacement(r) ==
    /\ pc[r] = "loop"
    /\ ch[r] # << >>
    /\ ~seen[r].isNil
    /\ Head(ch[r]).ID \in seen[r].ids
    /\ ch' = [ch EXCEPT ![r] = Tail(ch[r])]
    /\ UNCHANGED <<count, unique, pc, seen, repos, sem, gid, wpc, wrepo,
                   deadline, callerDone, cancelled, cache, response, loopExit,
                   lastCall,
                   lock, caller, firstLocked>>

\* the replacement started under the number of the last worker: gid-- for
\* gid++
ListRecvDup_SameNumber(r) ==
    /\ pc[r] = "loop"
    /\ ch[r] # << >>
    /\ ~seen[r].isNil
    /\ Head(ch[r]).ID \in seen[r].ids
    /\ gid[r] > 0
    /\ ch' = [ch EXCEPT ![r] = Tail(ch[r])]
    /\ wpc' = [wpc EXCEPT ![r][gid[r] - 1] = "select"]
    /\ gid' = [gid EXCEPT ![r] = gid[r] - 1]
    /\ UNCHANGED <<count, unique, pc, seen, repos, sem, wrepo, deadline,
                   callerDone, cancelled, cache, response, loopExit, lastCall,
                   lock, caller, firstLocked>>

\* case repo := <-ch, the ID is in seen: start a replacement worker
ListRecvDup(r) ==
    /\ pc[r] = "loop"
    /\ ch[r] # << >>
    /\ ~seen[r].isNil
    /\ Head(ch[r]).ID \in seen[r].ids
    /\ gid[r] < MaxWorkers
    /\ ch' = [ch EXCEPT ![r] = Tail(ch[r])]
    /\ wpc' = [wpc EXCEPT ![r][gid[r]] = "select"]
    /\ gid' = [gid EXCEPT ![r] = gid[r] + 1]
    /\ UNCHANGED <<count, unique, pc, seen, repos, sem, wrepo, deadline,
                   callerDone, cancelled, cache, response, loopExit, lastCall,
                   lock, caller, firstLocked>>

\* case repo := <-ch, otherwise: mark it seen, cache it, append it
ListRecvNew(r) ==
    /\ pc[r] = "loop"
    /\ ch[r] # << >>
    /\ LET repo == Head(ch[r])
           full == Len(repos[r]) + 1 = count[r]
       IN  /\ seen[r].isNil \/ repo.ID \notin seen[r].ids
           /\ ch' = [ch EXCEPT ![r] = Tail(ch[r])]
           /\ seen' = [seen EXCEPT ![r] = MarkSeen(seen[r], repo.ID)]
           /\ cache' = CacheAdd(cache, repo)
           /\ repos' = [repos EXCEPT ![r] = Append(repos[r], repo)]
           /\ pc' = [pc EXCEPT ![r] = IF full THEN "backfill" ELSE "loop"]
           /\ loopExit' = [loopExit EXCEPT ![r] =
                              IF full
                              THEN [why |-> "full", obtained |-> count[r],
                                    avail |-> 0]
                              ELSE loopExit[r]]
    /\ UNCHANGED <<count, unique, sem, gid, wpc, wrepo, deadline, callerDone,
                   cancelled, response, lastCall,
                   lock, caller, firstLocked>>

\* the loop test as it would be with <= for <
BackfillShort_OffByOne(r) == pc[r] = "backfill" /\ Len(repos[r]) <= count[r]

\* for len(repos) < count
BackfillShort(r) == pc[r] = "backfill" /\ Len(repos[r]) < count[r]

\* the caller went away: return without a response
BackfillAbort(r) ==
    /\ BackfillShort(r)
    /\ callerDone[r]
    /\ pc' = [pc EXCEPT ![r] = "aborted"]
    /\ cancelled' = [cancelled EXCEPT ![r] = TRUE]
    /\ UNCHANGED <<count, unique, seen, repos, ch, sem, gid, wpc, wrepo,
                   deadline, callerDone, cache, response, loopExit, lastCall,
                   lock, caller, firstLocked>>

\* one round of the backfill loop in which GetRandom finds a record
BackfillDraw(r) ==
    /\ BackfillShort(r)
    /\ ~callerDone[r]
    /\ \E got \in GetRandom(cache, seen[r]) :
          /\ ~got.err
          /\ seen' = [seen EXCEPT ![r] = MarkSeen(seen[r], got.repo.ID)]
          /\ repos' = [repos EXCEPT ![r] = Append(repos[r], got.repo)]
    /\ UNCHANGED <<count, unique, pc, ch, sem, gid, wpc, wrepo, deadline,
                   callerDone, cancelled, cache, response, loopExit, lastCall,
                   lock, caller, firstLocked>>

\* one round of the backfill loop in which GetRandom fails: break
BackfillExhausted(r) ==
    /\ BackfillShort(r)
    /\ ~callerDone[r]
    /\ \E got \in GetRandom(cache, seen[r]) : got.err
    /\ pc' = [pc EXCEPT ![r] = "respond"]
    /\ UNCHANGED <<count, unique, seen, repos, ch, sem, gid, wpc, wrepo,
                   deadline, callerDone, cancelled, cache, response, loopExit,
                   lastCall,
                   lock, caller, firstLocked>>

\* marshal the result, write it, return
ListRespond(r) ==
    /\ \/ pc[r] = "respond"
       \/ pc[r] = "backfill" /\ ~(Len(repos[r]) < count[r])
    /\ response' = [response EXCEPT ![r] =
                        [written |-> TRUE, repositories |-> repos[r]]]
    /\ pc' = [pc EXCEPT ![r] = "done"]
    /\ cancelled' = [cancelled EXCEPT ![r] = TRUE]
    /\ UNCHANGED <<count, unique, seen, repos, ch, sem, gid, wpc, wrepo,
                   deadline, callerDone, cache, loopExit, lastCall,
                   lock, caller, firstLocked>>

(***************************************************************************)
(* RepositoryHandlers.query, one worker.                                   *)
(***************************************************************************)
\* a semaphore that never fills
SemFree_Always(r) == TRUE

\* the send sem <- struct{}{} can proceed: the channel is not full
SemFree(r) == sem[r] < SemCap

\* case <-ctx.Done(): return
WorkerCtxDone(r, i) ==
    /\ wpc[r][i] = "select"
    /\ CtxDone(r)
    /\ wpc' = [wpc EXCEPT ![r][i] = "gaveup"]
    /\ UNCHANGED <<count, unique, pc, seen, repos, ch, sem, gid, wrepo,
                   deadline, callerDone, cancelled, cache, response, loopExit,
                   lastCall,
                   lock, caller, firstLocked>>

\* case sem <- struct{}{}: the call starts. A call that starts on a context
\* that is already done can only fail ("callx").
WorkerAcquire(r, i) ==
    /\ wpc[r][i] = "select"
    /\ SemFree(r)
    /\ sem' = [sem EXCEPT ![r] = sem[r] + 1]
    /\ wpc' = [wpc EXCEPT ![r][i] = IF CtxDone(r) THEN "callx" ELSE "call"]
    /\ UNCHANGED <<count, unique, pc, seen, repos, ch, gid, wrepo, deadline,
                   callerDone, cancelled, cache, response, loopExit, lastCall,
                   lock, caller, firstLocked>>

\* queryCall returns a Repository and a nil error
CallOK(r, i) ==
    /\ wpc[r][i] = "call"
    /\ \E rec \in Fetched : wrepo' = [wrepo EXCEPT ![r][i] = rec]
    /\ wpc' = [wpc EXCEPT ![r][i] = "release"]
    /\ UNCHANGED <<count, unique, pc, seen, repos, ch, sem, gid, deadline,
                   callerDone, cancelled, cache, response, loopExit, lastCall,
                   lock, caller, firstLocked>>

\* queryCall returns Repository{} and an error
CallFail(r, i) ==
    /\ wpc[r][i] \in {"call", "callx"}
    /\ wrepo' = [wrepo EXCEPT ![r][i] = NoRepo]
    /\ wpc' = [wpc EXCEPT ![r][i] = "release"]
    /\ UNCHANGED <<count, unique, pc, seen, repos, ch, sem, gid, deadline,
                   callerDone, cancelled, cache, response, loopExit, lastCall,
                   lock, caller, firstLocked>>

\* a worker that keeps its permit when the call failed
WorkerRelease_KeepOnError(r, i) ==
    /\ wpc[r][i] = "release"
    /\ sem' = [sem EXCEPT ![r] =
                   IF wrepo[r][i] = NoRepo THEN sem[r] ELSE sem[r] - 1]
    /\ wpc' = [wpc EXCEPT ![r][i] =
                   IF wrepo[r][i] = NoRepo THEN "select" ELSE "send"]
    /\ UNCHANGED <<count, unique, pc, seen, repos, ch, gid, wrepo, deadline,
                   callerDone, cancelled, cache, response, loopExit, lastCall,
                   lock, caller, firstLocked>>

\* a worker that returns when the call failed
WorkerRelease_ReturnOnError(r, i) ==
    /\ wpc[r][i] = "release"
    /\ sem' = [sem EXCEPT ![r] = sem[r] - 1]
    /\ wpc' = [wpc EXCEPT ![r][i] =
                   IF wrepo[r][i] = NoRepo THEN "gaveup" ELSE "send"]
    /\ UNCHANGED <<count, unique, pc, seen, repos, ch, gid, wrepo, deadline,
                   callerDone, cancelled, cache, response, loopExit, lastCall,
                   lock, caller, firstLocked>>

\* <-sem, then continue on an error
WorkerRelease(r, i) ==
    /\ wpc[r][i] = "release"
    /\ sem' = [sem EXCEPT ![r] = sem[r] - 1]
    /\ wpc' = [wpc EXCEPT ![r][i] =
                   IF wrepo[r][i] = NoRepo THEN "select" ELSE "send"]
    /\ UNCHANGED <<count, unique, pc, seen, repos, ch, gid, wrepo, deadline,
                   callerDone, cancelled, cache, response, loopExit, lastCall,
                   lock, caller, firstLocked>>

\* a results channel made one place too small
ChanFree_Smaller(r) == Len(ch[r]) < count[r] - 1

\* the send results <- repo can proceed: ch, made with capacity count, is
\* not full
ChanFree(r) == Len(ch[r]) < count[r]

\* a worker that goes round its loop again after the send
WorkerSend_Again(r, i) ==
    /\ wpc[r][i] = "send"
    /\ ChanFree(r)
    /\ ch' = [ch EXCEPT ![r] = Append(ch[r], wrepo[r][i])]
    /\ wrepo' = [wrepo EXCEPT ![r][i] = NoRepo]
    /\ wpc' = [wpc EXCEPT ![r][i] = "select"]
    /\ UNCHANGED <<count, unique, pc, seen, repos, sem, gid, deadline,
                   callerDone, cancelled, cache, response, loopExit, lastCall,
                   lock, caller, firstLocked>>

\* results <- repo, then return
WorkerSend(r, i) ==
    /\ wpc[r][i] = "send"
    /\ ChanFree(r)
    /\ ch' = [ch EXCEPT ![r] = Append(ch[r], wrepo[r][i])]
    /\ wrepo' = [wrepo EXCEPT ![r][i] = NoRepo]
    /\ wpc' = [wpc EXCEPT ![r][i] = "done"]
    /\ UNCHANGED <<count, unique, pc, seen, repos, sem, gid, deadline,
                   callerDone, cancelled, cache, response, loopExit, lastCall,
                   lock, caller, firstLocked>>

(***************************************************************************)
(* The environment of a request.                                           *)
(***************************************************************************)
\* the timer of context.WithTimeout fires. Once List has left the collection
\* loop the timer changes nothing: ctx is done, or every worker has returned.
Timeout(r) ==
    /\ pc[r] = "loop"
    /\ ~deadline[r]
    /\ deadline' = [deadline EXCEPT ![r] = TRUE]
    /\ UNCHANGED <<count, unique, pc, seen, repos, ch, sem, gid, wpc, wrepo,
                   callerDone, cancelled, cache, response, loopExit, lastCall,
                   lock, caller, firstLocked>>

\* the caller of the request goes away
CallerCancel(r) ==
    /\ pc[r] \in {"start", "loop", "backfill", "respond"}
    /\ ~callerDone[r]
    /\ callerDone' = [callerDone EXCEPT ![r] = TRUE]
    /\ UNCHANGED <<count, unique, pc, seen, repos, ch, sem, gid, wpc, wrepo,
                   deadline, cancelled, cache, response, loopExit, lastCall,
                   lock, caller, firstLocked>>

ListStep(r) ==
    \/ ListStart(r)
    \/ ListCtxDone(r)
    \/ ListRecvDup(r)
    \/ ListRecvNew(r)
    \/ BackfillAbort(r)
    \/ BackfillDraw(r)
    \/ BackfillExhausted(r)
    \/ ListRespond(r)

(***************************************************************************)
(* Direct calls of the Cache methods, by any user of the Cache.            *)
(***************************************************************************)
Excludes == {NilMap} \cup {MakeMap(x) : x \in SUBSET IDs}

CallAdd(rec) ==
    /\ cache' = CacheAdd(cache, rec)
    /\ lastCall' = [op |-> "Add", rec |-> rec, exclude |-> NilMap,
                    res |-> ErrNoRepositories]
    /\ UNCHANGED <<count, unique, pc, seen, repos, ch, sem, gid, wpc, wrepo,
                   deadline, callerDone, cancelled, response, loopExit,
                   lock, caller, firstLocked>>

CallGetRandom(exclude) ==
    /\ \E got \in GetRandom(cache, exclude) :
          lastCall' = [op |-> "GetRandom", rec |-> NoRepo,
                       exclude |-> exclude, res |-> got]
    /\ UNCHANGED <<count, unique, pc, seen, repos, ch, sem, gid, wpc, wrepo,
                   deadline, callerDone, cancelled, cache, response, loopExit,
                   lock, caller, firstLocked>>

(***************************************************************************)
(* The Cache's methods statement by statement, under c.lock, called by     *)
(* several goroutines.  A client blocked in Lock or RLock is one that has  *)
(* not yet taken the step.                                                 *)
(***************************************************************************)
OtherVars == <<count, unique, pc, seen, repos, ch, sem, gid, wpc, wrepo,
               deadline, callerDone, cancelled, response, loopExit, lastCall>>

\* a lock that lets every writer in
CanLock_Always == TRUE

\* Lock returns when no one holds the lock
CanLock == lock.writers = {} /\ lock.readers = {}

\* RLock returns when no one holds the lock for writing
CanRLock == lock.writers = {}

\* Add: c.lock.Lock()
AddLock(t, rec) ==
    /\ caller[t].pc = "idle"
    /\ CanLock
    /\ lock' = [lock EXCEPT !.writers = @ \cup {t}]
    /\ caller' = [caller EXCEPT ![t] =
                     [Outside EXCEPT !.pc = "add_check", !.r = rec]]
    /\ firstLocked' = IF firstLocked[rec.ID] = NoRepo
                      THEN [firstLocked EXCEPT ![rec.ID] = rec]
                      ELSE firstLocked
    /\ UNCHANGED <<cache, OtherVars>>

\* Add: if _, ok := c.data[r.ID]; ok { return }
AddCheck(t) ==
    /\ caller[t].pc = "add_check"
    /\ caller' = [caller EXCEPT ![t].pc =
                     IF caller[t].r.ID \in DOMAIN cache.data
                     THEN "add_unlock"
                     ELSE "add_data"]
    /\ UNCHANGED <<cache, lock, firstLocked, OtherVars>>

\* Add: c.data[r.ID] = r
AddData(t) ==
    /\ caller[t].pc = "add_data"
    /\ LET r == caller[t].r
       IN  cache' = [cache EXCEPT !.data =
                        [i \in (DOMAIN cache.data) \cup {r.ID} |->
                            IF i = r.ID THEN r ELSE cache.data[i]]]
    /\ caller' = [caller EXCEPT ![t].pc = "add_ids"]
    /\ UNCHANGED <<lock, firstLocked, OtherVars>>

\* Add: c.ids = append(c.ids, r.ID)
AddIds(t) ==
    /\ caller[t].pc = "add_ids"
    /\ cache' = [cache EXCEPT !.ids = Append(@, caller[t].r.ID)]
    /\ caller' = [caller EXCEPT ![t].pc = "add_unlock"]
    /\ UNCHANGED <<lock, firstLocked, OtherVars>>

\* Add: the deferred c.lock.Unlock(), and the return
AddUnlock(t) ==
    /\ caller[t].pc = "add_unlock"
    /\ lock' = [lock EXCEPT !.writers = @ \ {t}]
    /\ caller' = [caller EXCEPT ![t] = Outside]
    /\ UNCHANGED <<cache, firstLocked, OtherVars>>

\* GetRandom: c.lock.RLock()
GetRLock(t, exclude) ==
    /\ caller[t].pc = "idle"
    /\ CanRLock
    /\ lock' = [lock EXCEPT !.readers = @ \cup {t}]
    /\ caller' = [caller EXCEPT ![t] =
                     [Outside EXCEPT !.pc = "get_available",
                                     !.exclude = exclude]]
    /\ UNCHANGED <<cache, firstLocked, OtherVars>>

\* GetRandom: available, and the error return if it is empty
GetAvailable(t) ==
    /\ caller[t].pc = "get_available"
    /\ LET available == Available(cache, caller[t].exclude)
       IN  caller' = [caller EXCEPT ![t] =
                         IF Len(available) = 0
                         THEN [@ EXCEPT !.pc = "get_unlock",
                                        !.res = ErrNoRepositories]
                         ELSE [@ EXCEPT !.pc = "get_pick",
                                        !.available = available]]
    /\ UNCHANGED <<cache, lock, firstLocked, OtherVars>>

\* GetRandom: index := rand.Intn(len(available)); id := available[index]
GetPick(t) ==
    /\ caller[t].pc = "get_pick"
    /\ \E index \in 1..Len(caller[t].available) :
          caller' = [caller EXCEPT ![t].pc = "get_read",
                                   ![t].id = caller[t].available[index]]
    /\ UNCHANGED <<cache, lock, firstLocked, OtherVars>>

\* GetRandom: r := c.data[id]; return r, nil. A key that is not in the map
\* reads as the zero Repository.
GetRead(t) ==
    /\ caller[t].pc = "get_read"
    /\ LET id == caller[t].id
           r == IF id \in DOMAIN cache.data THEN cache.data[id] ELSE NoRepo
       IN  caller' = [caller EXCEPT ![t].pc = "get_unlock",
                                    ![t].res = [err |-> FALSE, repo |-> r]]
    /\ UNCHANGED <<cache, lock, firstLocked, OtherVars>>

\* GetRandom: the deferred c.lock.RUnlock(), and the return
GetRUnlock(t) ==
    /\ caller[t].pc = "get_unlock"
    /\ lock' = [lock EXCEPT !.readers = @ \ {t}]
    /\ caller' = [caller EXCEPT ![t] = Outside]
    /\ UNCHANGED <<cache, firstLocked, OtherVars>>

(***************************************************************************)
(* Specifications.                                                         *)
(***************************************************************************)
Next ==
    \/ \E r \in Reqs : ListStart(r)
    \/ \E r \in Reqs : ListCtxDone(r)
    \/ \E r \in Reqs : ListRecvDup(r)
    \/ \E r \in Reqs : ListRecvNew(r)
    \/ \E r \in Reqs : BackfillAbort(r)
    \/ \E r \in Reqs : BackfillDraw(r)
    \/ \E r \in Reqs : BackfillExhausted(r)
    \/ \E r \in Reqs : ListRespond(r)
    \/ \E r \in Reqs, i \in Workers : WorkerCtxDone(r, i)
    \/ \E r \in Reqs, i \in Workers : WorkerAcquire(r, i)
    \/ \E r \in Reqs, i \in Workers : CallOK(r, i)
    \/ \E r \in Reqs, i \in Workers : CallFail(r, i)
    \/ \E r \in Reqs, i \in Workers : WorkerRelease(r, i)
    \/ \E r \in Reqs, i \in Workers : WorkerSend(r, i)
    \/ \E r \in Reqs : Timeout(r)
    \/ \E r \in Reqs : CallerCancel(r)

\* one request
Spec == Init /\ [][Next]_vars

\* one request, with the goroutine that runs List scheduled fairly and its
\* select taking a case that stays ready. Nothing is assumed of the workers,
\* the upstream, the timer or the caller.
FairSpec ==
    /\ Init
    /\ [][Next]_vars
    /\ \A r \in Reqs : WF_vars(ListStep(r))
    /\ \A r \in Reqs : WF_vars(ListCtxDone(r))

\* two requests at the same time over an empty Cache: one that asks for
\* MaxCount unique records and one that asks for up to MaxConcCount records
InitConc ==
    /\ InitReq({1, 2}, 1..MaxCount)
    /\ count[1] = MaxCount /\ unique[1]
    /\ count[2] \in 1..MaxConcCount /\ ~unique[2]
    /\ cache = NewCache

SpecConc == InitConc /\ [][Next]_vars

\* the Cache alone, under any sequence of Add and GetRandom
InitCache ==
    /\ InitReq({}, {0})
    /\ cache = NewCache

NextCache ==
    \/ \E rec \in Records : CallAdd(rec)
    \/ \E exclude \in Excludes : CallGetRandom(exclude)

SpecCache == InitCache /\ [][NextCache]_vars

\* the Cache alone, its methods called concurrently
NextLock ==
    \/ \E t \in Clients, rec \in Records : AddLock(t, rec)
    \/ \E t \in Clients : AddCheck(t)
    \/ \E t \in Clients : AddData(t)
    \/ \E t \in Clients : AddIds(t)
    \/ \E t \in Clients : AddUnlock(t)
    \/ \E t \in Clients, exclude \in Excludes : GetRLock(t, exclude)
    \/ \E t \in Clients : GetAvailable(t)
    \/ \E t \in Clients : GetPick(t)
    \/ \E t \in Clients : GetRead(t)
    \/ \E t \in Clients : GetRUnlock(t)

SpecLock == InitCache /\ [][NextLock]_vars

\* one request, with its workers scheduled fairly: a send or receive that can
\* proceed does, a select takes a case that is ready again and again, and an
\* upstream call returns once its context is done. Nothing is assumed of
\* List, the timer, the caller, or an upstream call whose context is not done.
SpecWorkersFair ==
    /\ Init
    /\ [][Next]_vars
    /\ \A r \in Reqs, i \in Workers :
          /\ SF_vars(WorkerCtxDone(r, i))
          /\ WF_vars(CtxDone(r) /\ (CallOK(r, i) \/ CallFail(r, i)))
          /\ WF_vars(WorkerRelease(r, i))
          /\ WF_vars(WorkerSend(r, i))

\* Scenario A: one request for as many unique records as the upstream has
\* IDs; every upstream call succeeds, the deadline does not fire and the
\* caller stays. Without those steps of the environment the context is done
\* only when List returns, so the steps that wait for it are never enabled.
InitScenario ==
    /\ InitReq({1}, {0, MaxID})
    /\ count[1] = MaxID
    /\ unique[1]
    /\ cache \in InitCaches

NextScenario ==
    \/ \E r \in Reqs : ListStart(r)
    \/ \E r \in Reqs : ListRecvDup(r)
    \/ \E r \in Reqs : ListRecvNew(r)
    \/ \E r \in Reqs : ListRespond(r)
    \/ \E r \in Reqs, i \in Workers : WorkerAcquire(r, i)
    \/ \E r \in Reqs, i \in Workers : CallOK(r, i)
    \/ \E r \in Reqs, i \in Workers : WorkerRelease(r, i)
    \/ \E r \in Reqs, i \in Workers : WorkerSend(r, i)

\* every goroutine is scheduled and every upstream call returns
SpecScenario ==
    /\ InitScenario
    /\ [][NextScenario]_vars
    /\ \A r \in Reqs : WF_vars(ListStep(r))
    /\ \A r \in Reqs, i \in Workers :
          /\ WF_vars(WorkerAcquire(r, i))
          /\ WF_vars(CallOK(r, i))
          /\ WF_vars(WorkerRelease(r, i))
          /\ WF_vars(WorkerSend(r, i))

(***************************************************************************)
(* Properties.                                                             *)
(***************************************************************************)
\* workers of request r between taking a permit and giving it back
InFlight(r) == {i \in Workers : wpc[r][i] \in {"call", "callx", "release"}}

\* List has returned for request r
Returned(r) == pc[r] \in {"done", "aborted", "panic"}

NoDupIDs(s) == \A i, j \in 1..Len(s) : i # j => s[i].ID # s[j].ID

\* C1: for a count >= 0 the result list, and so the response list, never
\* holds more than count records, in the collection loop and in backfill.
C1_LengthAtMostCount ==
    \A r \in Reqs :
        count[r] >= 0 =>
            /\ Len(repos[r]) <= count[r]
            /\ Len(response[r].repositories) <= count[r]

\* a response of exactly count >= 2 records, part collected, part backfilled
C1_Witness ==
    \E r \in Reqs :
        /\ response[r].written
        /\ count[r] >= 2
        /\ Len(response[r].repositories) = count[r]
        /\ loopExit[r].why = "ctx"
        /\ loopExit[r].obtained \in 1..(count[r] - 1)

\* C2: in unique mode no two records of the result list, hence of the
\* response list, have the same ID, collected or backfilled.
C2_UniqueNoDuplicateID ==
    \A r \in Reqs :
        unique[r] => NoDupIDs(repos[r]) /\ NoDupIDs(response[r].repositories)

\* a unique response that mixes a collected and a backfilled record, after
\* a duplicate was discarded on the way
C2_Witness ==
    \E r \in Reqs :
        /\ unique[r]
        /\ response[r].written
        /\ Len(response[r].repositories) >= 2
        /\ loopExit[r].why = "ctx"
        /\ loopExit[r].obtained \in 1..(Len(response[r].repositories) - 1)
        /\ gid[r] > count[r]

\* C3 as stated: over all requests together the upstream calls in flight
\* never exceed the capacity of one permit pool.
C3_OnePoolForAllRequests ==
    Cardinality(InFlight(1)) + Cardinality(InFlight(2)) <= SemCap

\* C4: within one request the workers between acquiring a permit and
\* releasing it never outnumber the capacity of the semaphore.
C4_InFlightWithinCapacity ==
    \A r \in Reqs : Cardinality(InFlight(r)) <= SemCap

\* a request with a count above the capacity: the semaphore is full after a
\* failed call was retried, and another worker waits for a permit
C4_Witness ==
    \E r \in Reqs :
        /\ count[r] > SemCap
        /\ sem[r] = SemCap
        /\ Cardinality(InFlight(r)) = SemCap
        /\ \E i \in Workers : wpc[r][i] = "release" /\ wrepo[r][i] = NoRepo
        /\ \E i \in Workers : wpc[r][i] = "select"

\* C5 as stated: once List has returned for a count <= 0 it has written a
\* response whose list is empty.
C5_NonPositiveCountEmpty ==
    \A r \in Reqs :
        (count[r] <= 0 /\ Returned(r)) =>
            /\ response[r].written
            /\ response[r].repositories = << >>

\* C6 as stated: once the deadline has fired in the collection loop, List
\* eventually writes a response.
C6_RespondsAfterDeadline ==
    \A r \in Reqs :
        (deadline[r] /\ pc[r] = "loop") ~> response[r].written

\* C6 amended: once the deadline has fired in the collection loop, List
\* eventually returns, whatever the workers do: it writes a response, or it
\* returns without one because the caller's own context is done.
C6_ReturnsAfterDeadline ==
    \A r \in Reqs :
        (deadline[r] /\ pc[r] = "loop") ~>
            (response[r].written \/ (pc[r] = "aborted" /\ callerDone[r]))

\* List has responded after the deadline although no worker has delivered
\* anything and an upstream call is still in flight
C6_Witness ==
    \E r \in Reqs :
        /\ deadline[r]
        /\ response[r].written
        /\ loopExit[r].why = "ctx"
        /\ loopExit[r].obtained = 0
        /\ \A i \in Workers : wpc[r][i] \notin {"done", "send", "release"}
        /\ \E i \in Workers : wpc[r][i] = "call"

\* C7: when the collection loop ended on the context with obtained < count
\* records and the Cache then held at least count - obtained records outside
\* the seen set, a response that is written has exactly count records (the
\* caller's context ending during backfill leaves no response).
C7_BackfillReachesCount ==
    \A r \in Reqs :
        ( /\ response[r].written
          /\ loopExit[r].why = "ctx"
          /\ loopExit[r].obtained < count[r]
          /\ loopExit[r].avail >= count[r] - loopExit[r].obtained )
        => Len(response[r].repositories) = count[r]

\* such a response: the loop ended short on the deadline, the caller still
\* there, the Cache held enough, and backfill filled the list
C7_Witness ==
    \E r \in Reqs :
        /\ response[r].written
        /\ ~callerDone[r]
        /\ deadline[r]
        /\ loopExit[r].why = "ctx"
        /\ loopExit[r].obtained < count[r]
        /\ loopExit[r].avail >= count[r] - loopExit[r].obtained
        /\ Len(response[r].repositories) = count[r]

\* C8 as stated: every record a worker has fetched is written into the
\* Cache, so when List has returned no fetched record is left, in the
\* results channel or in the hands of a worker, whose ID the Cache lacks.
C8_EveryFetchedRecordCached ==
    \A r \in Reqs :
        (pc[r] \in {"done", "aborted"}) =>
            /\ \A k \in 1..Len(ch[r]) : ch[r][k].ID \in DOMAIN cache.data
            /\ \A i \in Workers :
                  wpc[r][i] = "send" => wrepo[r][i].ID \in DOMAIN cache.data

\* C9: no step replaces or removes a stored record; an Add of an ID that is
\* already stored leaves map and ID sequence as they are; an Add of a new ID
\* stores that record and lengthens the sequence by one. So the record
\* stored under an ID is the first one added with it.
C9_AddIdempotent ==
    [][ /\ \A id \in DOMAIN cache.data :
              id \in DOMAIN cache'.data /\ cache'.data[id] = cache.data[id]
        /\ (lastCall'.op = "Add" /\ lastCall'.rec.ID \in DOMAIN cache.data)
              => cache' = cache
        /\ (lastCall'.op = "Add" /\ lastCall'.rec.ID \notin DOMAIN cache.data)
              => /\ cache'.data[lastCall'.rec.ID] = lastCall'.rec
                 /\ Len(cache'.ids) = Len(cache.ids) + 1
                 /\ Cardinality(DOMAIN cache'.data) =
                        Cardinality(DOMAIN cache.data) + 1 ]_vars

\* the last call was an Add of a record whose ID was stored before with
\* other fields, and the first record is still the one stored
C9_Witness ==
    /\ lastCall.op = "Add"
    /\ lastCall.rec.ID \in DOMAIN cache.data
    /\ cache.data[lastCall.rec.ID] # lastCall.rec
    /\ Len(cache.ids) >= 2

\* the IDs GetRandom may pick from under an exclusion
Qualifying(exclude) ==
    {id \in DOMAIN cache.data : exclude.isNil \/ id \notin exclude.ids}

\* C10: GetRandom returns the error exactly when no cached ID qualifies,
\* otherwise a record stored in the Cache under its own ID, which is not in
\* the exclusion set; and the call leaves the Cache as it was.
C10_GetRandomContract ==
    /\ [](lastCall.op = "GetRandom" =>
            /\ lastCall.res.err <=> Qualifying(lastCall.exclude) = {}
            /\ ~lastCall.res.err =>
                  /\ lastCall.res.repo.ID \in Qualifying(lastCall.exclude)
                  /\ cache.data[lastCall.res.repo.ID] = lastCall.res.repo)
    /\ [][lastCall'.op = "GetRandom" => cache' = cache]_vars

\* GetRandom has returned a record from a Cache in which some other ID was
\* excluded
C10_Witness ==
    /\ lastCall.op = "GetRandom"
    /\ ~lastCall.res.err
    /\ ~lastCall.exclude.isNil
    /\ lastCall.exclude.ids \cap DOMAIN cache.data # {}

\* the IDs of the records of a list
IDsOf(s) == {s[k].ID : k \in 1..Len(s)}

\* the model's bound on the workers of a request stops the run: a duplicate
\* waits in the channel and no number is left for its replacement
OutOfWorkers(r) ==
    /\ gid[r] = MaxWorkers
    /\ ch[r] # << >>
    /\ Head(ch[r]).ID \in seen[r].ids

\* C11: in scenario A a response holds each of the upstream's IDs exactly
\* once, and a request in the collection loop gets to such a response, a
\* duplicate on the way being replaced by a new fetch (as far as the model's
\* bound on the number of workers lets the run go).
C11_ScenarioA ==
    /\ [](\A r \in Reqs :
            response[r].written =>
                /\ IDsOf(response[r].repositories) = IDs
                /\ Len(response[r].repositories) = count[r]
                /\ NoDupIDs(response[r].repositories)
                /\ loopExit[r].why = "full")
    /\ \A r \in Reqs :
          (pc[r] = "loop") ~> (response[r].written \/ OutOfWorkers(r))

\* a complete response after a duplicate was replaced
C11_Witness ==
    \E r \in Reqs :
        /\ response[r].written
        /\ unique[r]
        /\ IDsOf(response[r].repositories) = IDs
        /\ gid[r] > count[r]
        /\ wpc[r][count[r]] = "done"
        /\ loopExit[r].why = "full"

\* worker i of request r has been started and has not returned
Alive(r, i) == wpc[r][i] \in {"select", "call", "callx", "release", "send"}

\* C12: once the context of a request is done (deadline, caller gone, or
\* List returned), every worker of the request that is still running
\* eventually returns; none waits forever for a permit or in its send,
\* whether or not List still receives.
C12_NoWorkerLeak ==
    \A r \in Reqs, i \in Workers :
        (CtxDone(r) /\ Alive(r, i)) ~> ~Alive(r, i)

\* List has returned on the deadline; afterwards one worker has given up at
\* its select and another has sent its record into the channel nobody reads
C12_Witness ==
    \E r \in Reqs :
        /\ Returned(r)
        /\ deadline[r]
        /\ ch[r] # << >>
        /\ \E i \in Workers : wpc[r][i] = "gaveup"
        /\ \E i \in Workers : wpc[r][i] = "done"
        /\ \A i \in Workers : ~Alive(r, i)

\* C13: a record enters the results channel only by the send of a worker
\* that holds the record of a successful call and returns with that send; a
\* worker gets to its send only from the release after a successful call;
\* and a worker that has returned never runs again. So a worker emits at
\* most once.
C13_EmitOnceAfterSuccess ==
    [][\A r \in Reqs :
          /\ Len(ch'[r]) > Len(ch[r]) =>
                \E i \in Workers :
                    /\ wpc[r][i] = "send"
                    /\ wrepo[r][i] \in Fetched
                    /\ ch'[r] = Append(ch[r], wrepo[r][i])
                    /\ wpc'[r][i] = "done"
          /\ \A i \in Workers :
                /\ (wpc'[r][i] = "send" /\ wpc[r][i] # "send") =>
                      (wpc[r][i] = "release" /\ wrepo[r][i] \in Fetched)
                /\ wpc[r][i] \in {"done", "gaveup"} =>
                      wpc'[r][i] = wpc[r][i]
      ]_vars

\* one worker has emitted its record and returned, List has collected the
\* record, and the call of another worker has failed
C13_Witness ==
    \E r \in Reqs :
        /\ \E i \in Workers : wpc[r][i] = "done"
        /\ \E i \in Workers : wpc[r][i] = "release" /\ wrepo[r][i] = NoRepo
        /\ Len(repos[r]) = 1
        /\ pc[r] = "loop"

\* C14: the permits taken of a request's semaphore are those of its workers
\* between the acquire and the release around one upstream call; a worker
\* that waits, retries, sends or has returned holds none, so the semaphore
\* is empty once the workers have returned.
C14_PermitOnlyAroundCall ==
    \A r \in Reqs :
        /\ sem[r] = Cardinality(InFlight(r))
        /\ (\A i \in Workers : ~Alive(r, i)) => sem[r] = 0

\* a worker is about to send, holding no permit, while another one is in its
\* call and the semaphore is full
C14_Witness ==
    \E r \in Reqs :
        /\ \E i \in Workers : wpc[r][i] = "send"
        /\ \E i \in Workers : wpc[r][i] = "call"
        /\ sem[r] = SemCap
        /\ Cardinality({i \in Workers : Alive(r, i)}) > SemCap

\* the workers of request r that have been started
Started(r) == {i \in Workers : wpc[r][i] # "none"}

\* List receives, in unique mode, a record whose ID is in seen
RecvDupStep(r) ==
    /\ pc[r] = "loop"
    /\ ~seen[r].isNil
    /\ ch[r] # << >>
    /\ Head(ch[r]).ID \in seen[r].ids
    /\ ch'[r] = Tail(ch[r])

\* C15: the step in which List, in unique mode, receives a record whose ID
\* is in seen leaves the result list, seen and the Cache as they are and
\* starts exactly one worker, under a number above the numbers of all
\* workers started before; and the started workers are always those with
\* the numbers below gid, so no number is given twice.
C15_DuplicateStartsOneReplacement ==
    /\ [](\A r \in Reqs : Started(r) = {i \in Workers : i < gid[r]})
    /\ [][\A r \in Reqs :
            RecvDupStep(r) =>
                /\ repos'[r] = repos[r]
                /\ seen'[r] = seen[r]
                /\ cache' = cache
                /\ pc'[r] = "loop"
                /\ \E j \in Workers \ Started(r) :
                      /\ Started(r)' = Started(r) \cup {j}
                      /\ wpc'[r][j] = "select"
                      /\ \A k \in Started(r) : k < j /\ wpc'[r][k] = wpc[r][k]
         ]_vars

\* a replacement worker runs beside the record that List has kept
C15_Witness ==
    \E r \in Reqs :
        /\ unique[r]
        /\ pc[r] = "loop"
        /\ gid[r] = count[r] + 1
        /\ Len(repos[r]) = 1
        /\ wpc[r][count[r]] = "call"

\* C16: a failed upstream call ends no worker and reaches no caller. The
\* step a worker takes after a failed call gives the permit back, sends
\* nothing and leaves the worker waiting for a permit; a worker returns only
\* with its send after a successful call or from its select when the context
\* is done; and the zero Repository of a failed call is never in the results
\* channel or in a result list.
C16_FailureRetriedNotSurfaced ==
    /\ [](\A r \in Reqs :
            /\ \A k \in 1..Len(ch[r]) : ch[r][k] # NoRepo
            /\ \A k \in 1..Len(repos[r]) : repos[r][k] # NoRepo
            /\ \A k \in 1..Len(response[r].repositories) :
                  response[r].repositories[k] # NoRepo)
    /\ [][\A r \in Reqs, i \in Workers :
            /\ ( /\ wpc[r][i] = "release"
                 /\ wrepo[r][i] = NoRepo
                 /\ wpc'[r][i] # "release" )
               => /\ wpc'[r][i] = "select"
                  /\ sem'[r] = sem[r] - 1
                  /\ ch'[r] = ch[r]
            /\ (wpc'[r][i] = "done" /\ wpc[r][i] # "done")
               => (wpc[r][i] = "send" /\ wrepo[r][i] \in Fetched)
            /\ (wpc'[r][i] = "gaveup" /\ wpc[r][i] # "gaveup")
               => (wpc[r][i] = "select" /\ CtxDone(r))
         ]_vars

\* a call has failed while the context is not done and List goes on
\* collecting: the worker is about to give the permit back and try again
C16_Witness ==
    \E r \in Reqs :
        /\ pc[r] = "loop"
        /\ ~CtxDone(r)
        /\ \E i \in Workers : wpc[r][i] = "release" /\ wrepo[r][i] = NoRepo
        /\ \E i \in Workers : wpc[r][i] = "done"

\* C17 as stated: a worker that waits for a permit when its context is done
\* starts no other upstream call and emits nothing: its next step is to
\* return from its select.
C17_DoneContextNoNewCall ==
    [][\A r \in Reqs, i \in Workers :
          (wpc[r][i] = "select" /\ CtxDone(r)) =>
              wpc'[r][i] \in {"select", "gaveup"}
      ]_vars

\* C18: without unique mode backfill draws from the whole Cache, the same
\* record again if it comes up. A response written after the collection loop
\* ended on the deadline with obtained < count records, the Cache then not
\* empty, has exactly count records, and each record after the first
\* obtained ones is the Cache's record of its ID; and backfill breaks off
\* short only in a step in which GetRandom has nothing to return.
C18_NonUniqueBackfill ==
    /\ [](\A r \in Reqs :
            ( /\ ~unique[r]
              /\ response[r].written
              /\ loopExit[r].why = "ctx"
              /\ loopExit[r].obtained < count[r]
              /\ loopExit[r].avail >= 1 )
            => /\ seen[r].isNil
               /\ Len(response[r].repositories) = count[r]
               /\ \A k \in (loopExit[r].obtained + 1)..count[r] :
                     LET rec == response[r].repositories[k]
                     IN  /\ rec.ID \in DOMAIN cache.data
                         /\ cache.data[rec.ID] = rec)
    /\ [][\A r \in Reqs :
            (~unique[r] /\ pc[r] = "backfill" /\ pc'[r] = "respond")
            => (Len(repos[r]) < count[r] /\ cache.ids = << >>)
         ]_vars

\* a response without unique mode, after the deadline, in which backfill
\* drew the same cached record twice
C18_Witness ==
    \E r \in Reqs :
        /\ ~unique[r]
        /\ deadline[r]
        /\ response[r].written
        /\ loopExit[r].why = "ctx"
        /\ loopExit[r].obtained = 0
        /\ Len(response[r].repositories) = 2
        /\ response[r].repositories[1] = response[r].repositories[2]
        /\ response[r].repositories[1] \in FetchedEarlier

\* C19: in every state the Cache's ID sequence holds no ID twice and its
\* IDs are exactly the keys of the record map, each key holding a record of
\* that ID; no step takes an entry out of the sequence or the map or puts
\* another record under a stored key (the sequence only grows at its end);
\* and a GetRandom call changes neither.
C19_CacheInvariant ==
    /\ [](/\ \A i, j \in 1..Len(cache.ids) :
                i # j => cache.ids[i] # cache.ids[j]
          /\ {cache.ids[k] : k \in 1..Len(cache.ids)} = DOMAIN cache.data
          /\ \A id \in DOMAIN cache.data : cache.data[id].ID = id)
    /\ [][/\ Len(cache.ids) <= Len(cache'.ids)
          /\ SubSeq(cache'.ids, 1, Len(cache.ids)) = cache.ids
          /\ DOMAIN cache.data \subseteq DOMAIN cache'.data
          /\ \A id \in DOMAIN cache.data : cache'.data[id] = cache.data[id]
          /\ lastCall'.op = "GetRandom" =>
                (cache'.data = cache.data /\ cache'.ids = cache.ids)
         ]_vars

\* a Cache that holds every ID, filled in another order than that of the
\* IDs, from which a record was then drawn
C19_Witness ==
    /\ lastCall.op = "GetRandom"
    /\ ~lastCall.res.err
    /\ DOMAIN cache.data = IDs
    /\ Len(cache.ids) = Cardinality(IDs)
    /\ cache.ids[1] > cache.ids[2]
    /\ cache.data[cache.ids[1]] \in FetchedEarlier

\* the clients inside Add and inside GetRandom
InAdd == {t \in Clients : caller[t].pc \in
             {"add_check", "add_data", "add_ids", "add_unlock"}}
InGet == {t \in Clients : caller[t].pc \in
             {"get_available", "get_pick", "get_read", "get_unlock"}}

\* C20: with the Cache's methods called concurrently, a client inside Add
\* is alone inside the Cache and clients inside GetRandom are there only
\* with each other; the sequence never holds an ID twice and the record
\* stored under an ID is that of the first Add of the ID that took the
\* lock, whatever Adds of that ID run beside and after it; while no Add is
\* inside, the IDs of the sequence are the keys of the map; and a record
\* GetRandom returns is the stored record of an ID of the sequence that is
\* not excluded, never the zero Repository of an ID missing from the map.
C20_CacheUnderLock ==
    /\ Cardinality(InAdd) <= 1
    /\ InAdd # {} => InGet = {}
    /\ lock.writers = InAdd /\ lock.readers = InGet
    /\ \A i, j \in 1..Len(cache.ids) : i # j => cache.ids[i] # cache.ids[j]
    /\ \A id \in DOMAIN cache.data : cache.data[id] = firstLocked[id]
    /\ InAdd = {} =>
          {cache.ids[k] : k \in 1..Len(cache.ids)} = DOMAIN cache.data
    /\ \A t \in Clients :
          (caller[t].pc = "get_unlock" /\ ~caller[t].res.err) =>
              LET r == caller[t].res.repo
              IN  /\ r # NoRepo
                  /\ r.ID \in DOMAIN cache.data
                  /\ r = firstLocked[r.ID]
                  /\ \E k \in 1..Len(cache.ids) : cache.ids[k] = r.ID
                  /\ caller[t].exclude.isNil \/ r.ID \notin caller[t].exclude.ids

\* an Add of an ID that another client has stored with other fields has
\* found it there and is about to return, the first record still stored,
\* once in the sequence
C20_Witness ==
    \E t \in Clients :
        /\ caller[t].pc = "add_unlock"
        /\ caller[t].r.ID \in DOMAIN cache.data
        /\ cache.data[caller[t].r.ID] # caller[t].r
        /\ cache.ids = <<caller[t].r.ID>>

\* the records List has taken from workers into the result list: those in
\* repos when the collection loop is left, before any backfill
Collected(r) ==
    IF loopExit[r].why = "none" THEN Len(repos[r]) ELSE loopExit[r].obtained

\* the places of ch that are spoken for: a worker that has not returned may
\* still send one record, a buffered record holds one, a collected record
\* has used one
ChanLoad(r) ==
    Cardinality({i \in Workers : Alive(r, i)}) + Len(ch[r]) + Collected(r)

\* C21 as stated: in every state of a List request the workers that have
\* not returned, the records buffered in the results channel and the
\* records collected from workers are together at most count, so a worker
\* that is at its send finds the channel not full, while List receives and
\* after it has stopped.
C21_ChannelNeverFull ==
    \A r \in Reqs :
        /\ ChanLoad(r) <= count[r]
        /\ \A i \in Workers : wpc[r][i] = "send" => ChanFree(r)

====
